---------------------------- MODULE Spec2Model ----------------------------
(***************************************************************************)
(* A model of check-pqc: the command-line tool that launches a browser per *)
(* URL, listens to the Security.visibleSecurityStateChanged notifications  *)
(* of the Chrome DevTools Protocol and reports whether the negotiated key  *)
(* exchange group names MLKEM.                                             *)
(*                                                                         *)
(* Two versions of the program are in the repository: check-pqc.js and an  *)
(* earlier one (src/unnamed/part_000) without the server header and with   *)
(* page and CDP session creation outside the try block.  The variable      *)
(* `program` says which one runs.                                           *)
(*                                                                         *)
(* Text is modelled as sequences of one-character strings ("LF", "CR" and  *)
(* "TAB" name the control characters), so that includes, startsWith, trim  *)
(* and split are computed as the code computes them.  A report is a        *)
(* sequence of lines; a line is the fixed part of its template (label) and *)
(* the interpolated values (args).                                         *)
(***************************************************************************)
EXTENDS Integers, Sequences, FiniteSets, TLC

VARIABLES
    program,      \* which source file runs: "check-pqc.js" or "part_000"
    argv,         \* process.argv.slice(2)
    files,        \* the file system: path -> content
    pc,           \* where main / checkTLS is suspended
    urls,         \* main's urls array
    idx,          \* position of the for-of loop in urls (0 before the loop)
    browsers,     \* indices of the URLs whose browser is open
    result,       \* checkTLS's `result` string, as a sequence of lines
    serverHeader, \* checkTLS's `serverHeader`
    listening,    \* the event listeners of the current page are registered
    console,      \* what was written to stdout / stderr, in order
    log,          \* what was written to logStream, in order
    logEnded,     \* logStream.end() was called
    exitCode,     \* <<>> while the process runs, <<c>> once it exited
    pageEvents,   \* history: the events delivered to the current page
    calls,        \* history: the URL indices checkTLS was called with
    failed,       \* history: the URL indices for which a step of checkTLS failed
    budget        \* events the environment may still deliver

vars == <<program, argv, files, pc, urls, idx, browsers, result, serverHeader,
          listening, console, log, logEnded, exitCode, pageEvents, calls, failed, budget>>

---------------------------------------------------------------------------
(* Bounds of the model *)

\* events (responses and notifications) delivered during one run
MaxEvents == 3
\* length of the key exchange group strings enumerated for the classifier
MaxGroupLen == 6
\* length of the file contents enumerated for the URL list
MaxFileLen == 6

---------------------------------------------------------------------------
(* String primitives of JavaScript used by the program *)

\* String.prototype.includes
Includes(s, sub) ==
    \E i \in 1..(Len(s) - Len(sub) + 1) : SubSeq(s, i, i + Len(sub) - 1) = sub

\* String.prototype.startsWith
StartsWith(s, prefix) ==
    Len(s) >= Len(prefix) /\ SubSeq(s, 1, Len(prefix)) = prefix

\* String.prototype.replace with a string pattern: the first occurrence only
Replace(s, pat, rep) ==
    IF ~Includes(s, pat) THEN s
    ELSE LET i == CHOOSE k \in 1..(Len(s) - Len(pat) + 1) :
                      /\ SubSeq(s, k, k + Len(pat) - 1) = pat
                      /\ \A j \in 1..(k - 1) : SubSeq(s, j, j + Len(pat) - 1) # pat
         IN SubSeq(s, 1, i - 1) \o rep \o SubSeq(s, i + Len(pat), Len(s))

LowerCase == <<"a","b","c","d","e","f","g","h","i","j","k","l","m","n","o","p","q","r","s","t","u","v","w","x","y","z">>
UpperCase == <<"A","B","C","D","E","F","G","H","I","J","K","L","M","N","O","P","Q","R","S","T","U","V","W","X","Y","Z">>

\* the upper-case letter of every lower-case letter
UpperOf ==
    [c \in {LowerCase[k] : k \in 1..Len(LowerCase)} |->
        UpperCase[CHOOSE k \in 1..Len(LowerCase) : LowerCase[k] = c]]

\* String.prototype.toUpperCase (ASCII)
ToUpperCase(s) ==
    [i \in 1..Len(s) |-> IF s[i] \in DOMAIN UpperOf THEN UpperOf[s[i]] ELSE s[i]]

\* the white space String.prototype.trim removes
WhiteSpace == {" ", "TAB", "CR", "LF"}

\* String.prototype.trim
RECURSIVE TrimStart(_)
TrimStart(s) ==
    IF s # <<>> /\ Head(s) \in WhiteSpace THEN TrimStart(Tail(s)) ELSE s

RECURSIVE TrimEnd(_)
TrimEnd(s) ==
    IF s # <<>> /\ s[Len(s)] \in WhiteSpace
    THEN TrimEnd(SubSeq(s, 1, Len(s) - 1)) ELSE s

Trim(s) == TrimEnd(TrimStart(s))

\* String.prototype.split(/\r?\n/): scan from the left, cut at every LF and
\* drop a CR that immediately precedes it
RECURSIVE SplitFrom(_, _, _)
SplitFrom(s, cur, acc) ==
    IF s = <<>> THEN Append(acc, cur)
    ELSE IF Head(s) = "LF" THEN SplitFrom(Tail(s), <<>>, Append(acc, cur))
    ELSE IF Head(s) = "CR" /\ Len(s) >= 2 /\ s[2] = "LF"
         THEN SplitFrom(Tail(Tail(s)), <<>>, Append(acc, cur))
    ELSE SplitFrom(Tail(s), Append(cur, Head(s)), acc)

SplitLines(s) == SplitFrom(s, <<>>, <<>>)

\* decimal digits of n, left-padded with zeros to width w
RECURSIVE Pad(_, _)
Pad(n, w) ==
    IF w = 0 THEN <<>>
    ELSE Append(Pad(n \div 10, w - 1), <<"0","1","2","3","4","5","6","7","8","9">>[(n % 10) + 1])

\* new Date(secs * 1000).toISOString() for a whole number of seconds and
\* 0 <= year <= 9999: the proleptic Gregorian calendar date of the day
\* number, UTC (the product is not formed: it exceeds 32 bits)
ToISOString(secs) ==
    LET days == secs \div 86400
        rem  == secs % 86400
        z    == days + 719468
        era  == z \div 146097
        doe  == z - era * 146097
        yoe  == (doe - doe \div 1460 + doe \div 36524 - doe \div 146096) \div 365
        doy  == doe - (365 * yoe + yoe \div 4 - yoe \div 100)
        mp   == (5 * doy + 2) \div 153
        d    == doy - (153 * mp + 2) \div 5 + 1
        m    == IF mp < 10 THEN mp + 3 ELSE mp - 9
        y    == yoe + era * 400 + (IF m <= 2 THEN 1 ELSE 0)
    IN Pad(y, 4) \o <<"-">> \o Pad(m, 2) \o <<"-">> \o Pad(d, 2) \o <<"T">>
       \o Pad(rem \div 3600, 2) \o <<":">> \o Pad((rem % 3600) \div 60, 2)
       \o <<":">> \o Pad(rem % 60, 2) \o <<".">> \o Pad(0, 3) \o <<"Z">>

---------------------------------------------------------------------------
(* The security-state handler's classification and report *)

NA == <<"N","/","A">>

\* obj[field] of a JavaScript object: <<>> for undefined, <<v>> for the value v
Field(obj, field) == IF field \in DOMAIN obj THEN <<obj[field]>> ELSE <<>>

\* `value || fallback` for a string: undefined and "" are falsy
OrElse(value, fallback) ==
    IF value = <<>> \/ value[1] = <<>> THEN fallback ELSE value[1]

\* formatTimestamp: "N/A" for undefined and 0, the ISO string otherwise
formatTimestamp(timestamp) ==
    IF timestamp = <<>> \/ timestamp[1] = 0 THEN NA
    ELSE ToISOString(timestamp[1])

\* const certState = securityState.certificateSecurityState || {};
CertState(securityState) ==
    IF "certificateSecurityState" \in DOMAIN securityState
    THEN securityState.certificateSecurityState ELSE <<>>

ProtocolOrNA(certState) == OrElse(Field(certState, "protocol"), NA)
Protocol(certState) == OrElse(Field(certState, "protocol"), <<"U","n","k","n","o","w","n">>)

TlsVersion(protocol) ==
    IF StartsWith(protocol, <<"T","L","S">>) THEN Replace(protocol, <<"T","L","S"," ">>, <<"T","L","S"," ">>)
    ELSE protocol

IsQUIC(protocol) == Includes(protocol, <<"Q","U","I","C">>)

TransportProtocol(protocol) ==
    IF IsQUIC(protocol) THEN <<"Q","U","I","C"," ","(","U","s","e","s"," ","T","L","S"," ","1",".","3"," ","E","n","c","r","y","p","t","i","o","n",")">>
    ELSE TlsVersion(protocol)

KeyExchange(certState) ==
    OrElse(Field(certState, "keyExchange"),
           IF IsQUIC(Protocol(certState)) THEN <<"H","a","n","d","l","e","d"," ","b","y"," ","Q","U","I","C">> ELSE NA)

KeyExchangeGroup(certState) ==
    OrElse(Field(certState, "keyExchangeGroup"), NA)

MLKEM == <<"M","L","K","E","M">>

PqcDetectedAnyCase(keyExchangeGroup) ==
    Includes(ToUpperCase(keyExchangeGroup), MLKEM)

\* const pqcDetected = keyExchangeGroup.includes("MLKEM");
PqcDetected(keyExchangeGroup) == Includes(keyExchangeGroup, MLKEM)

Line(label, args) == [label |-> label, args |-> args]

Separator == Line("----------------------------------------", <<>>)

VerdictLine(pqcDetected) ==
    IF pqcDetected
    THEN Line("This site is using Post-Quantum Encryption (PQC)!", <<>>)
    ELSE Line("This site is NOT using Post-Quantum Encryption.", <<>>)

\* the lines one notification adds to `result` in check-pqc.js
ReportLines(securityState, server) ==
    LET certState == CertState(securityState) IN
    << Separator,
       Line("Security State", <<ToUpperCase(securityState.securityState)>>),
       Line("Server", <<server>>),
       Line("Transport Protocol", <<TransportProtocol(Protocol(certState))>>),
       Line("Key Exchange", <<KeyExchange(certState)>>),
       Line("Key Exchange Group", <<KeyExchangeGroup(certState)>>),
       Line("Cipher Suite", <<OrElse(Field(certState, "cipher"), NA)>>),
       Line("Certificate Subject", <<OrElse(Field(certState, "subjectName"), NA)>>),
       Line("Issuer", <<OrElse(Field(certState, "issuer"), NA)>>),
       Line("Valid From", <<formatTimestamp(Field(certState, "validFrom"))>>),
       Line("Valid To", <<formatTimestamp(Field(certState, "validTo"))>>),
       Separator,
       VerdictLine(PqcDetected(KeyExchangeGroup(certState))) >>

\* the lines one notification adds to `result` in part_000: no Server line
P0_ReportLines(securityState) ==
    LET certState == CertState(securityState) IN
    << Separator,
       Line("Security State", <<ToUpperCase(securityState.securityState)>>),
       Line("Transport Protocol", <<TransportProtocol(Protocol(certState))>>),
       Line("Key Exchange", <<KeyExchange(certState)>>),
       Line("Key Exchange Group", <<KeyExchangeGroup(certState)>>),
       Line("Cipher Suite", <<OrElse(Field(certState, "cipher"), NA)>>),
       Line("Certificate Subject", <<OrElse(Field(certState, "subjectName"), NA)>>),
       Line("Issuer", <<OrElse(Field(certState, "issuer"), NA)>>),
       Line("Valid From", <<formatTimestamp(Field(certState, "validFrom"))>>),
       Line("Valid To", <<formatTimestamp(Field(certState, "validTo"))>>),
       Separator,
       VerdictLine(PqcDetected(KeyExchangeGroup(certState))) >>

\* let result = `\n🔍 Checking: ${url}\n`;
HeaderLines(url) == << Line("", <<>>), Line("Checking", <<url>>) >>

---------------------------------------------------------------------------
(* The inputs of a run *)

UrlA == <<"h","t","t","p","s",":","/","/","a">>
ListFile == <<"u","r","l","s",".","t","x","t">>
BlankFile == <<"b","l","a","n","k",".","t","x","t">>

\* the files that exist when the tool runs
FileSystem ==
    [p \in {ListFile, BlankFile} |->
        IF p = ListFile THEN <<"h","t","t","p","s",":","/","/","a","CR","LF"," ","LF","h","t","t","p","s",":","/","/","b","LF">> ELSE <<" ","LF","CR","LF">>]

\* the command lines of the runs explored
CommandLines ==
    { <<>>, <<UrlA>>, <<ListFile>>, <<BlankFile>> }

\* the messages of the errors page.goto raises
NavigationErrors ==
    { <<"n","e","t",":",":","E","R","R","_","H","T","T","P","2","_","P","R","O","T","O","C","O","L","_","E","R","R","O","R"," ","a","t"," ","h","t","t","p","s",":","/","/","a">>,
      <<"N","a","v","i","g","a","t","i","o","n"," ","t","i","m","e","o","u","t"," ","o","f"," ","3","0","0","0","0"," ","m","s"," ","e","x","c","e","e","d","e","d">> }

\* the message of the errors the other calls raise
ProtocolErrors == { <<"P","r","o","t","o","c","o","l"," ","e","r","r","o","r",":"," ","T","a","r","g","e","t"," ","c","l","o","s","e","d">> }

\* the visibleSecurityState records the browser sends
SecurityStates ==
    { [securityState |-> <<"s","e","c","u","r","e">>,
       certificateSecurityState |->
          [protocol |-> <<"T","L","S"," ","1",".","3">>, keyExchange |-> <<>>,
           keyExchangeGroup |-> <<"X","2","5","5","1","9","M","L","K","E","M","7","6","8">>,
           cipher |-> <<"A","E","S","_","1","2","8","_","G","C","M">>, subjectName |-> <<"e","x","a","m","p","l","e",".","c","o","m">>,
           issuer |-> <<"T","e","s","t"," ","C","A">>, validFrom |-> 1704067200,
           validTo |-> 1735689599]],
      [securityState |-> <<"n","e","u","t","r","a","l">>] }

\* response.headers()['server']: <<>> when the response has no server header
ServerHeaders == { <<>>, <<<<>>>>, <<<<"n","g","i","n","x">>>>, <<<<"c","l","o","u","d","f","l","a","r","e">>>> }

---------------------------------------------------------------------------
(* main *)

\* decimal representation of a small natural number
RECURSIVE Decimal(_)
Decimal(n) == IF n < 10 THEN Pad(n, 1) ELSE Decimal(n \div 10) \o Pad(n % 10, 1)


NonEmpty(line) == line # <<>>
\* the filter of main: line => line.trim() !== ''
NonBlank(line) == Trim(line) # <<>>

\* the URL list main works on: the arguments, or the non-blank lines of the
\* file when the only argument names an existing file
ResolveUrls(args, fs) ==
    IF Len(args) = 1 /\ args[1] \in DOMAIN fs
    THEN SelectSeq(SplitLines(fs[args[1]]), NonBlank)
    ELSE args

Stdout(text, page) == [stream |-> "stdout", text |-> text, page |-> page]
Stderr(text, page) == [stream |-> "stderr", text |-> text, page |-> page]
LogWrite(text, page) == [text |-> text, page |-> page]

Init ==
    /\ program \in {"check-pqc.js", "part_000"}
    /\ argv \in CommandLines
    /\ files = FileSystem
    /\ pc = "start"
    /\ urls = <<>>
    /\ idx = 0
    /\ browsers = {}
    /\ result = <<>>
    /\ serverHeader = <<>>
    /\ listening = {}
    /\ console = <<>>
    /\ log = <<>>
    /\ logEnded = FALSE
    /\ exitCode = <<>>
    /\ pageEvents = <<>>
    /\ calls = <<>>
    /\ failed = {}
    /\ budget = MaxEvents

\* main up to its first await: the log stream is created, the URL list is
\* resolved, and either the usage message is printed and the process exits
\* with code 1, or checkTLS is called with the first URL
MainStart ==
    /\ pc = "start"
    /\ urls' = ResolveUrls(argv, files)
    /\ result' = [i \in 1..Len(urls') |-> <<>>]
    /\ serverHeader' = [i \in 1..Len(urls') |-> <<>>]
    /\ pageEvents' = [i \in 1..Len(urls') |-> <<>>]
    /\ IF urls' = <<>>
       THEN /\ console' = Append(console,
                  Stderr(<<Line("Usage: node check-pqc.js <URL> or <file-with-URLs>", <<>>)>>, 0))
            /\ exitCode' = <<1>>
            /\ pc' = "exited"
            /\ UNCHANGED <<idx, calls>>
       ELSE /\ console' = Append(console,
                  Stdout(<<Line("Checking site(s)", <<Decimal(Len(urls'))>>)>>, 0))
            /\ idx' = 1
            /\ calls' = <<1>>
            /\ pc' = "launch"
            /\ UNCHANGED exitCode
    /\ UNCHANGED <<program, argv, files, browsers, listening, log, logEnded,
                   failed, budget>>

\* checkTLS returned: the for-of loop calls it with the next URL, or, after
\* the last one, the log stream is ended and main returns
Return ==
    IF idx < Len(urls)
    THEN /\ idx' = idx + 1
         /\ calls' = Append(calls, idx + 1)
         /\ pc' = "launch"
         /\ UNCHANGED <<console, logEnded, exitCode>>
    ELSE /\ logEnded' = TRUE
         /\ console' = Append(console,
               Stdout(<<Line("All results saved to pqc_results.log", <<>>)>>, 0))
         /\ exitCode' = <<0>>
         /\ pc' = "done"
         /\ UNCHANGED <<idx, calls>>

\* checkTLS threw: main() rejects and nothing handles the rejection.  Node 15
\* and later end the process with code 1; Node 14 prints a warning and the
\* process ends with code 0 once nothing is pending.  The log stream is never
\* ended and no further URL is checked.
Reject ==
    /\ pc' = "rejected"
    /\ exitCode' \in {<<0>>, <<1>>}
    /\ failed' = failed \cup {idx}
    /\ UNCHANGED <<idx, calls, console, logEnded>>

---------------------------------------------------------------------------
(* checkTLS of check-pqc.js *)

Http2Hint ==
    <<"H","T","T","P","/","2"," ","p","r","o","t","o","c","o","l"," ","e","r","r","o","r"," ","-"," ","T","h","i","s"," ","m","i","g","h","t"," ","b","e"," ","d","u","e"," ","t","o"," ","t","h","e"," ","s","i","t","e","'","s"," ","s","e","c","u","r","i","t","y"," ","p","o","l","i","c","i","e","s","."," ","T","r","y"," ","a","c","c","e","s","s","i","n","g"," ","t","h","e"," ","s","i","t","e"," ","d","i","r","e","c","t","l","y"," ","i","n"," ","a"," ","b","r","o","w","s","e","r"," ","f","i","r","s","t",".">>

\* the message the catch block reports
ErrorMessage(message) ==
    IF Includes(message, <<"n","e","t",":",":","E","R","R","_","H","T","T","P","2","_","P","R","O","T","O","C","O","L","_","E","R","R","O","R">>) THEN Http2Hint
    ELSE message

ErrorLines(url, errorMessage) == << Line("Error checking", <<url, errorMessage>>) >>

\* puppeteer.launch resolved: the browser is open, `result` gets its header
Launch ==
    /\ program = "check-pqc.js"
    /\ pc = "launch"
    /\ browsers' = browsers \cup {idx}
    /\ result' = [result EXCEPT ![idx] = HeaderLines(urls[idx])]
    /\ pc' = "newPage"
    /\ UNCHANGED <<program, argv, files, urls, idx, serverHeader, listening,
                   console, log, logEnded, exitCode, pageEvents, calls, failed, budget>>

\* puppeteer.launch rejected: it is awaited before the try block, so
\* checkTLS rejects
LaunchFails ==
    /\ program = "check-pqc.js"
    /\ pc = "launch"
    /\ Reject
    /\ UNCHANGED <<program, argv, files, urls, browsers, result, serverHeader,
                   listening, log, pageEvents, budget>>

\* an awaited call inside the try block resolved
Resolved(at, next) ==
    /\ program = "check-pqc.js"
    /\ pc = at
    /\ pc' = next
    /\ UNCHANGED <<program, argv, files, urls, idx, browsers, result,
                   serverHeader, listening, console, log, logEnded, exitCode,
                   pageEvents, calls, failed, budget>>

\* an awaited call inside the try block rejected: the catch block reports the
\* error, then the finally block starts closing the browser
Rejected(at, messages) ==
    /\ program = "check-pqc.js"
    /\ pc = at
    /\ \E message \in messages :
          /\ console' = Append(console,
                Stderr(ErrorLines(urls[idx], ErrorMessage(message)), idx))
          /\ log' = Append(log,
                LogWrite(ErrorLines(urls[idx], ErrorMessage(message)), idx))
    /\ failed' = failed \cup {idx}
    /\ pc' = "closing"
    /\ UNCHANGED <<program, argv, files, urls, idx, browsers, result,
                   serverHeader, listening, logEnded, exitCode, pageEvents,
                   calls, budget>>

NewPage == Resolved("newPage", "setExtraHTTPHeaders")
NewPageFails == Rejected("newPage", ProtocolErrors)

SetExtraHTTPHeaders == Resolved("setExtraHTTPHeaders", "createCDPSession")
SetExtraHTTPHeadersFails == Rejected("setExtraHTTPHeaders", ProtocolErrors)

CreateCDPSession == Resolved("createCDPSession", "Security.enable")
CreateCDPSessionFails == Rejected("createCDPSession", ProtocolErrors)

\* Security.enable resolved: serverHeader is declared, both listeners are
\* registered and page.goto is called
SecurityEnable ==
    /\ program = "check-pqc.js"
    /\ pc = "Security.enable"
    /\ serverHeader' = [serverHeader EXCEPT ![idx] = NA]
    /\ listening' = listening \cup {idx}
    /\ pc' = "goto"
    /\ UNCHANGED <<program, argv, files, urls, idx, browsers, result, console,
                   log, logEnded, exitCode, pageEvents, calls, failed, budget>>

SecurityEnableFails == Rejected("Security.enable", ProtocolErrors)

Goto == Resolved("goto", "settle")
GotoFails == Rejected("goto", NavigationErrors)

\* the 5000 ms timer fired: the try block is done, the finally block starts
\* closing the browser
Settle == Resolved("settle", "closing")

\* the server header a response leaves in `serverHeader`
ServerAfterAnyHeader(current, server) ==
    IF server = <<>> THEN current ELSE server[1]
ServerAfter(current, server) == OrElse(server, current)

\* page.on('response'): a response of page p arrived
OnResponse(p, server) ==
    /\ program = "check-pqc.js"
    /\ p \in listening \cap browsers
    /\ budget > 0
    /\ serverHeader' = [serverHeader EXCEPT ![p] = ServerAfter(serverHeader[p], server)]
    /\ pageEvents' = [pageEvents EXCEPT ![p] =
                         Append(@, [type |-> "response", server |-> server])]
    /\ budget' = budget - 1
    /\ UNCHANGED <<program, argv, files, pc, urls, idx, browsers, result,
                   listening, console, log, logEnded, exitCode, calls, failed>>

\* `result` after the handler appended the report of one notification
ResultAfter(before, securityState, server) ==
    before \o ReportLines(securityState, server)

\* what the handler writes to the log: result + "\n"
LogText(text) == Append(text, Line("", <<>>))

\* console.log(result) of the handler of page p
ConsoleLogTwice(out, text, p) == Append(Append(out, Stdout(text, p)), Stdout(text, p))
ConsoleLog(out, text, p) == Append(out, Stdout(text, p))

\* client.on('Security.visibleSecurityStateChanged'): a notification for page
\* p arrived; the handler appends the report to `result` and prints and logs
\* the whole of `result`
OnSecurityStateChanged(p, securityState) ==
    /\ program = "check-pqc.js"
    /\ p \in listening \cap browsers
    /\ budget > 0
    /\ result' = [result EXCEPT ![p] = ResultAfter(@, securityState, serverHeader[p])]
    /\ console' = ConsoleLog(console, result'[p], p)
    /\ log' = Append(log, LogWrite(LogText(result'[p]), p))
    /\ pageEvents' = [pageEvents EXCEPT ![p] =
                         Append(@, [type |-> "notification", state |-> securityState])]
    /\ budget' = budget - 1
    /\ UNCHANGED <<program, argv, files, pc, urls, idx, browsers, serverHeader,
                   listening, logEnded, exitCode, calls, failed>>

\* the browsers open once browser.close() resolved
BrowsersLeftOpen(open, p) == open
BrowsersAfterClose(open, p) == open \ {p}

\* browser.close() resolved: the browser is gone and delivers no further
\* event (its listeners stay registered on the dead session); checkTLS
\* returns to the loop of main
Close ==
    /\ pc = "closing"
    /\ browsers' = BrowsersAfterClose(browsers, idx)
    /\ Return
    /\ UNCHANGED <<program, argv, files, urls, result, serverHeader, listening,
                   log, pageEvents, failed, budget>>

---------------------------------------------------------------------------
(* checkTLS of part_000, the earlier version *)

\* puppeteer.launch resolved
P0_Launch ==
    /\ program = "part_000"
    /\ pc = "launch"
    /\ browsers' = browsers \cup {idx}
    /\ pc' = "newPage"
    /\ UNCHANGED <<program, argv, files, urls, idx, result, serverHeader,
                   listening, console, log, logEnded, exitCode, pageEvents,
                   calls, failed, budget>>

\* an awaited call before the try block rejected (launch, newPage,
\* createCDPSession): checkTLS rejects at once; a browser that was launched
\* is not closed
P0_RejectedBeforeTry(at) ==
    /\ program = "part_000"
    /\ pc = at
    /\ Reject
    /\ UNCHANGED <<program, argv, files, urls, browsers, result, serverHeader,
                   listening, log, pageEvents, budget>>

P0_LaunchFails == P0_RejectedBeforeTry("launch")

\* an awaited call resolved
P0_Resolved(at, next) ==
    /\ program = "part_000"
    /\ pc = at
    /\ pc' = next
    /\ UNCHANGED <<program, argv, files, urls, idx, browsers, result,
                   serverHeader, listening, console, log, logEnded, exitCode,
                   pageEvents, calls, failed, budget>>

P0_NewPage == P0_Resolved("newPage", "createCDPSession")
P0_NewPageFails == P0_RejectedBeforeTry("newPage")

\* createCDPSession resolved: `result` gets its header and, inside the try
\* block, Security.enable is sent
P0_CreateCDPSession ==
    /\ program = "part_000"
    /\ pc = "createCDPSession"
    /\ result' = [result EXCEPT ![idx] = HeaderLines(urls[idx])]
    /\ pc' = "Security.enable"
    /\ UNCHANGED <<program, argv, files, urls, idx, browsers, serverHeader,
                   listening, console, log, logEnded, exitCode, pageEvents,
                   calls, failed, budget>>

P0_CreateCDPSessionFails == P0_RejectedBeforeTry("createCDPSession")

\* an awaited call inside the try block rejected: the catch block reports
\* error.message, then the finally block starts closing the browser
P0_Rejected(at, messages) ==
    /\ program = "part_000"
    /\ pc = at
    /\ \E message \in messages :
          /\ console' = Append(console, Stderr(ErrorLines(urls[idx], message), idx))
          /\ log' = Append(log, LogWrite(ErrorLines(urls[idx], message), idx))
    /\ failed' = failed \cup {idx}
    /\ pc' = "closing"
    /\ UNCHANGED <<program, argv, files, urls, idx, browsers, result,
                   serverHeader, listening, logEnded, exitCode, pageEvents,
                   calls, budget>>

\* Security.enable resolved: the listener is registered, page.goto is called
P0_SecurityEnable ==
    /\ program = "part_000"
    /\ pc = "Security.enable"
    /\ listening' = listening \cup {idx}
    /\ pc' = "goto"
    /\ UNCHANGED <<program, argv, files, urls, idx, browsers, result,
                   serverHeader, console, log, logEnded, exitCode, pageEvents,
                   calls, failed, budget>>

P0_SecurityEnableFails == P0_Rejected("Security.enable", ProtocolErrors)

P0_Goto == P0_Resolved("goto", "settle")
P0_GotoFails == P0_Rejected("goto", NavigationErrors)

\* the 3000 ms timer fired
P0_Settle == P0_Resolved("settle", "closing")

\* client.on('Security.visibleSecurityStateChanged') of part_000
P0_OnSecurityStateChanged(p, securityState) ==
    /\ program = "part_000"
    /\ p \in listening \cap browsers
    /\ budget > 0
    /\ result' = [result EXCEPT ![p] = @ \o P0_ReportLines(securityState)]
    /\ console' = ConsoleLog(console, result'[p], p)
    /\ log' = Append(log, LogWrite(LogText(result'[p]), p))
    /\ pageEvents' = [pageEvents EXCEPT ![p] =
                         Append(@, [type |-> "notification", state |-> securityState])]
    /\ budget' = budget - 1
    /\ UNCHANGED <<program, argv, files, pc, urls, idx, browsers, serverHeader,
                   listening, logEnded, exitCode, calls, failed>>

---------------------------------------------------------------------------
(* The runs of the tool *)

Next ==
    \/ MainStart
    \/ Launch \/ LaunchFails
    \/ NewPage \/ NewPageFails
    \/ SetExtraHTTPHeaders \/ SetExtraHTTPHeadersFails
    \/ CreateCDPSession \/ CreateCDPSessionFails
    \/ SecurityEnable \/ SecurityEnableFails
    \/ Goto \/ GotoFails
    \/ Settle
    \/ \E p \in listening, server \in ServerHeaders : OnResponse(p, server)
    \/ \E p \in listening, s \in SecurityStates : OnSecurityStateChanged(p, s)
    \/ Close
    \/ P0_Launch \/ P0_LaunchFails
    \/ P0_NewPage \/ P0_NewPageFails
    \/ P0_CreateCDPSession \/ P0_CreateCDPSessionFails
    \/ P0_SecurityEnable \/ P0_SecurityEnableFails
    \/ P0_Goto \/ P0_GotoFails
    \/ P0_Settle
    \/ \E p \in listening, s \in SecurityStates : P0_OnSecurityStateChanged(p, s)

Spec == Init /\ [][Next]_vars

---------------------------------------------------------------------------
(* The handler alone, on many notifications *)

GroupAlphabet == {"M", "L", "K", "E", "m"}

\* key exchange groups: every string over the alphabet up to the bound, and
\* the examples of PQC-DETECTION.md
KeyExchangeGroups ==
    UNION { [1..n -> GroupAlphabet] : n \in 0..MaxGroupLen }
    \cup { <<"X","2","5","5","1","9">>, <<"P","-","2","5","6">>, <<"P","-","3","8","4">>, <<"M","L","K","E","M","7","6","8">>, <<"X","2","5","5","1","9","_","M","L","K","E","M","7","6","8">>,
           <<"x","2","5","5","1","9","_","m","l","k","e","m","7","6","8">>, <<"N","/","A">> }

\* notifications with every key exchange group, with the field absent, over
\* QUIC, and without a certificate state
ClassifierInputs ==
    { [securityState |-> <<"s","e","c","u","r","e">>,
       certificateSecurityState |->
          [protocol |-> <<"T","L","S"," ","1",".","3">>, keyExchangeGroup |-> g,
           cipher |-> <<"A","E","S","_","1","2","8","_","G","C","M">>]] : g \in KeyExchangeGroups }
    \cup
    { [securityState |-> <<"s","e","c","u","r","e">>,
       certificateSecurityState |->
          [protocol |-> <<"T","L","S"," ","1",".","3">>, keyExchange |-> <<"E","C","D","H","E","_","R","S","A">>,
           subjectName |-> <<"e","x","a","m","p","l","e",".","c","o","m">>, validFrom |-> 0]],
      [securityState |-> <<"i","n","s","e","c","u","r","e">>,
       certificateSecurityState |->
          [protocol |-> <<"Q","U","I","C">>, keyExchangeGroup |-> <<"X","2","5","5","1","9">>,
           cipher |-> <<"C","H","A","C","H","A","2","0","_","P","O","L","Y","1","3","0","5">>, issuer |-> <<"T","e","s","t"," ","C","A">>,
           validTo |-> 1735689599]],
      [securityState |-> <<"n","e","u","t","r","a","l">>] }

\* checkTLS of check-pqc.js for one URL, suspended in page.goto: the state
\* Spec reaches from the command line <<UrlA>> when every call up to
\* Security.enable resolved
InitClassify ==
    /\ program = "check-pqc.js"
    /\ argv = <<UrlA>>
    /\ files = FileSystem
    /\ pc = "goto"
    /\ urls = <<UrlA>>
    /\ idx = 1
    /\ browsers = {1}
    /\ result = << HeaderLines(UrlA) >>
    /\ serverHeader = << NA >>
    /\ listening = {1}
    /\ console = << Stdout(<<Line("Checking site(s)", <<Decimal(1)>>)>>, 0) >>
    /\ log = <<>>
    /\ logEnded = FALSE
    /\ exitCode = <<>>
    /\ pageEvents = << <<>> >>
    /\ calls = <<1>>
    /\ failed = {}
    /\ budget = 1

NextClassify ==
    /\ budget > 0
    /\ \E s \in ClassifierInputs : OnSecurityStateChanged(1, s)

SpecClassify == InitClassify /\ [][NextClassify]_vars

---------------------------------------------------------------------------
(* The URL list of main, on many files *)

FileAlphabet == {"a", "b", " ", "CR", "LF"}

FileContents == UNION { [1..n -> FileAlphabet] : n \in 0..MaxFileLen }

\* one argument naming a file that exists, one naming no file, and two
\* arguments of which the first names a file that exists
InitArgs ==
    /\ program = "check-pqc.js"
    /\ \E content \in FileContents :
          \/ argv = <<ListFile>> /\ files = [p \in {ListFile} |-> content]
          \/ argv = <<content>> /\ files = [p \in {ListFile} |-> <<"a">>]
          \/ argv = <<ListFile, content>> /\ files = [p \in {ListFile} |-> content]
    /\ pc = "start"
    /\ urls = <<>>
    /\ idx = 0
    /\ browsers = {}
    /\ result = <<>>
    /\ serverHeader = <<>>
    /\ listening = {}
    /\ console = <<>>
    /\ log = <<>>
    /\ logEnded = FALSE
    /\ exitCode = <<>>
    /\ pageEvents = <<>>
    /\ calls = <<>>
    /\ failed = {}
    /\ budget = 0

NextArgs == MainStart

SpecArgs == InitArgs /\ [][NextArgs]_vars

---------------------------------------------------------------------------
(* Reading the output back *)

PositiveVerdict == "This site is using Post-Quantum Encryption (PQC)!"
NegativeVerdict == "This site is NOT using Post-Quantum Encryption."

IsVerdict(line) == line.label \in {PositiveVerdict, NegativeVerdict}
IsErrorText(text) == text # <<>> /\ text[1].label = "Error checking"

\* the pages of the run
Pages == DOMAIN pageEvents

\* the k-th smallest element of a set of numbers
Kth(S, k) ==
    LET set == S
    IN CHOOSE x \in set : Cardinality({y \in set : y < x}) = k - 1

\* what the handler of page p printed, and what it wrote to the log
Reports(p) == SelectSeq(console, LAMBDA e : e.stream = "stdout" /\ e.page = p)
LogReports(p) == SelectSeq(log, LAMBDA e : e.page = p /\ ~IsErrorText(e.text))

\* the notifications delivered to page p, in the order of their arrival
Notifications(p) ==
    SelectSeq(pageEvents[p], LAMBDA e : e.type = "notification")

\* the positions of the verdict lines of a text
VerdictAt(text) == {i \in 1..Len(text) : IsVerdict(text[i])}

\* the j-th report block of a text: the lines after the header (or after the
\* verdict of block j - 1) up to the j-th verdict
Block(text, j) ==
    LET verdicts == VerdictAt(text)
    IN SubSeq(text,
              IF j = 1 THEN 3 ELSE Kth(verdicts, j - 1) + 1,
              Kth(verdicts, j))

HasLabel(block, label) == \E i \in 1..Len(block) : block[i].label = label

\* the value of the line of a block that carries the label
ValueOf(block, label) ==
    block[CHOOSE i \in 1..Len(block) : block[i].label = label].args[1]

HasCertState(s) == "certificateSecurityState" \in DOMAIN s

\* the key exchange group label of a notification, as the specification
\* defines it: the field, or "N/A" when it is absent or empty
GroupLabel(s) ==
    IF /\ HasCertState(s)
       /\ "keyExchangeGroup" \in DOMAIN s.certificateSecurityState
       /\ s.certificateSecurityState.keyExchangeGroup # <<>>
    THEN s.certificateSecurityState.keyExchangeGroup
    ELSE <<"N", "/", "A">>

ContainsMLKEM(label) ==
    \E i \in 1..(Len(label) - 4) :
        /\ label[i] = "M" /\ label[i + 1] = "L" /\ label[i + 2] = "K"
        /\ label[i + 3] = "E" /\ label[i + 4] = "M"

---------------------------------------------------------------------------
(* C1: for every notification the verdict of its report is the positive one *)
(* exactly when the key exchange group label (the field, or "N/A" when it   *)
(* is absent or empty) contains "MLKEM" in upper case; with the field       *)
(* absent the verdict is the negative one.                                  *)
C1_VerdictIffGroupContainsMLKEM ==
    \A p \in Pages :
        /\ Len(Reports(p)) = Len(Notifications(p))
        /\ Len(LogReports(p)) = Len(Notifications(p))
        /\ \A k \in 1..Len(Notifications(p)) :
              LET s == Notifications(p)[k].state
                  block == Block(Reports(p)[k].text, k)
                  logged == Block(LogReports(p)[k].text, k)
                  verdict == block[Len(block)].label
              IN /\ IsVerdict(block[Len(block)])
                 /\ logged = block
                 /\ (verdict = PositiveVerdict) <=> ContainsMLKEM(GroupLabel(s))
                 /\ GroupLabel(s) = <<"N", "/", "A">> => verdict = NegativeVerdict
                 /\ ValueOf(block, "Key Exchange Group") = GroupLabel(s)

\* a hybrid group was reported as post-quantum
C1_Witness ==
    \E p \in Pages : \E k \in 1..Len(Notifications(p)) :
        /\ GroupLabel(Notifications(p)[k].state) = <<"X","2","5","5","1","9","_","M","L","K","E","M","7","6","8">>
        /\ k <= Len(Reports(p))
        /\ Reports(p)[k].text[Len(Reports(p)[k].text)].label = PositiveVerdict

---------------------------------------------------------------------------
\* the labels of a report block whose value comes from the certificate state
CertLabels ==
    { "Key Exchange", "Key Exchange Group", "Cipher Suite",
      "Certificate Subject", "Issuer", "Valid From", "Valid To" }

(* C4, as claimed: a notification without a certificate state is reported   *)
(* with "N/A" for every label, the transport protocol included, and with    *)
(* the negative verdict.                                                    *)
C4_Original_EveryLabelNA ==
    \A p \in Pages :
        LET reports == Reports(p)
            arrived == Notifications(p)
        IN \A k \in 1..Len(arrived) :
              k <= Len(reports) /\ ~HasCertState(arrived[k].state) =>
                 LET block == Block(reports[k].text, k) IN
                 /\ \A label \in CertLabels \cup {"Transport Protocol"} :
                       HasLabel(block, label) /\ ValueOf(block, label) = <<"N","/","A">>
                 /\ block[Len(block)].label = NegativeVerdict

(* C4, amended: a notification without a certificate state is reported with *)
(* "Unknown" for the transport protocol, with "N/A" for key exchange, key   *)
(* exchange group, cipher, subject, issuer, valid-from and valid-to, and    *)
(* with the negative verdict, on the console and in the log.                *)
C4_AbsentCertStateDefaults ==
    \A p \in Pages :
        LET reports == Reports(p)
            logged == LogReports(p)
            arrived == Notifications(p)
        IN \A k \in 1..Len(arrived) :
              k <= Len(reports) /\ ~HasCertState(arrived[k].state) =>
                 LET block == Block(reports[k].text, k) IN
                 /\ \A label \in CertLabels :
                       HasLabel(block, label) /\ ValueOf(block, label) = <<"N","/","A">>
                 /\ HasLabel(block, "Transport Protocol")
                 /\ ValueOf(block, "Transport Protocol") = <<"U","n","k","n","o","w","n">>
                 /\ block[Len(block)].label = NegativeVerdict
                 /\ Len(logged) >= k
                 /\ Block(logged[k].text, k) = block

\* a notification without a certificate state was reported
C4_Witness ==
    \E p \in Pages : \E k \in 1..Len(Notifications(p)) :
        /\ k <= Len(Reports(p))
        /\ ~HasCertState(Notifications(p)[k].state)
        /\ ValueOf(Block(Reports(p)[k].text, k), "Security State") = <<"N","E","U","T","R","A","L">>

---------------------------------------------------------------------------
\* the text of a report built from one notification alone
IsSingleReport(text) ==
    /\ Cardinality(VerdictAt(text)) = 1
    /\ Cardinality({i \in 1..Len(text) : text[i].label = "Security State"}) = 1

(* C5: the text printed and logged for a notification holds exactly one     *)
(* report block and one verdict line, whatever notifications came before    *)
(* it on the page.                                                          *)
C5_OneBlockPerEmission ==
    \A p \in Pages :
        /\ \A k \in 1..Len(Reports(p)) : IsSingleReport(Reports(p)[k].text)
        /\ \A k \in 1..Len(LogReports(p)) : IsSingleReport(LogReports(p)[k].text)

\* what the code does instead: the k-th emission of a page holds k blocks
C5_Observed_EmissionAccumulates ==
    \A p \in Pages : \A k \in 1..Len(Reports(p)) :
        Cardinality(VerdictAt(Reports(p)[k].text)) = k

---------------------------------------------------------------------------
\* the position in pageEvents[p] of the k-th notification of page p
NotificationAt(p, k) ==
    Kth({i \in 1..Len(pageEvents[p]) : pageEvents[p][i].type = "notification"}, k)

\* the responses with a non-empty server header among the first n events
ServersBefore(p, n) ==
    {i \in 1..(n - 1) :
        /\ pageEvents[p][i].type = "response"
        /\ pageEvents[p][i].server # <<>>
        /\ pageEvents[p][i].server[1] # <<>>}

\* the server the report of the k-th notification of page p has to show
ExpectedServer(p, k) ==
    LET seen == ServersBefore(p, NotificationAt(p, k)) IN
    IF seen = {} THEN <<"N", "/", "A">>
    ELSE pageEvents[p][Kth(seen, Cardinality(seen))].server[1]

(* C7: in check-pqc.js, under every interleaving of responses and           *)
(* notifications, the Server line of every block of every emitted report is *)
(* the server header of the last response with a non-empty server header    *)
(* that the same page saw before the block's notification was handled, and  *)
(* "N/A" when it saw none; what another URL's page saw never shows.         *)
C7_ServerLineIsLatestOfSamePage ==
    program = "check-pqc.js" =>
        \A p \in Pages :
            LET reports == Reports(p) IN
            \A k \in 1..Len(reports) :
                /\ k <= Len(Notifications(p))
                /\ Cardinality(VerdictAt(reports[k].text)) >= k
                /\ \A j \in 1..k :
                      LET block == Block(reports[k].text, j) IN
                      /\ HasLabel(block, "Server")
                      /\ ValueOf(block, "Server") = ExpectedServer(p, j)

\* the first page saw a server header, the second page saw none and its
\* report shows "N/A"
C7_Witness ==
    /\ program = "check-pqc.js"
    /\ Len(urls) >= 2
    /\ ServersBefore(1, Len(pageEvents[1]) + 1) # {}
    /\ ServersBefore(2, Len(pageEvents[2]) + 1) = {}
    /\ Len(Reports(2)) >= 1
    /\ ValueOf(Block(Reports(2)[1].text, 1), "Server") = <<"N","/","A">>

---------------------------------------------------------------------------
\* page p handled an event in this step
HandledEvent(p) ==
    /\ p \in DOMAIN pageEvents /\ p \in DOMAIN pageEvents'
    /\ pageEvents'[p] # pageEvents[p]

(* C8: URLs are processed one at a time in list order: at most one browser  *)
(* is open at any time, and it is the browser of the URL being checked; no  *)
(* browser is open when the next one is launched; a browser is closed only  *)
(* by the finally block, after navigation failed or the settling delay      *)
(* passed; and a page handles events only while its URL is the one being    *)
(* checked.                                                                 *)
C8_OneUrlAtATime ==
    /\ [](/\ Cardinality(browsers) <= 1
          /\ browsers \subseteq {idx}
          /\ pc = "launch" => browsers = {}
          /\ \A k \in 1..Len(calls) : calls[k] = k)
    /\ [][/\ \A p \in 1..Len(urls) : HandledEvent(p) => p = idx /\ idx' = idx
          /\ browsers' # browsers /\ browsers' \subseteq browsers =>
                pc = "closing"
          /\ idx' # idx => idx' = idx + 1 /\ browsers' = {}]_vars

\* the second URL is being checked with its browser open, after the page of
\* the first one handled a notification
C8_Witness ==
    /\ idx = 2
    /\ browsers = {2}
    /\ Len(Notifications(1)) >= 1
    /\ Len(Notifications(2)) >= 1

---------------------------------------------------------------------------
\* the block without its Server line
WithoutServer(block) == SelectSeq(block, LAMBDA line : line.label # "Server")

(* C9: on every page each notification causes one emission to the console   *)
(* and one write to the log, never more, and the emissions follow the       *)
(* order of arrival: the k-th emission of the page ends with the report of  *)
(* the k-th notification.                                                   *)
C9_OneEmissionPerNotificationInOrder ==
    \A p \in Pages :
        LET reports == Reports(p)
            logged == LogReports(p)
            arrived == Notifications(p)
        IN /\ Len(reports) = Len(arrived)
           /\ Len(logged) = Len(arrived)
           /\ \A k \in 1..Len(arrived) :
                 LET text == reports[k].text
                     last == Cardinality(VerdictAt(text))
                 IN /\ last >= 1
                    /\ IsVerdict(text[Len(text)])
                    /\ WithoutServer(Block(text, last)) =
                          P0_ReportLines(arrived[k].state)
                    /\ SubSeq(logged[k].text, 1, Len(logged[k].text) - 1) = text

\* two different notifications of one page were reported
C9_Witness ==
    \E p \in Pages :
        /\ Len(Notifications(p)) >= 2
        /\ Notifications(p)[1] # Notifications(p)[2]
        /\ Len(Reports(p)) >= 2
        /\ Len(LogReports(p)) >= 2

---------------------------------------------------------------------------
\* the log holds an error message naming the URL
ErrorLogged(url) ==
    \E k \in 1..Len(log) :
        /\ IsErrorText(log[k].text)
        /\ log[k].text[1].args[1] = url

\* checkTLS was called for the i-th URL
Checked(i) == \E k \in 1..Len(calls) : calls[k] = i

(* C2: when a step of checking a URL fails (browser launch, page or CDP     *)
(* session creation, Security.enable, navigation), an error message naming  *)
(* the URL is in the log, and by the end of the run every later URL of the  *)
(* batch was checked.                                                       *)
C2_FailureLoggedAndBatchContinues ==
    \A i \in failed :
        /\ ErrorLogged(urls[i])
        /\ exitCode # <<>> => \A j \in (i + 1)..Len(urls) : Checked(j)

\* what holds of check-pqc.js: every failure after the launch is logged and
\* the batch goes on
C2_Observed_AfterLaunch ==
    program = "check-pqc.js" =>
        \A i \in failed :
            pc # "rejected" =>
                /\ ErrorLogged(urls[i])
                /\ exitCode # <<>> => \A j \in (i + 1)..Len(urls) : Checked(j)

---------------------------------------------------------------------------
(* C3: when the URL list is empty main prints the usage message and exits   *)
(* with code 1 without launching a browser or checking a URL; otherwise the *)
(* process ends with code 0, after every URL was checked exactly once and   *)
(* the log stream was ended.                                                *)
C3_UsageOrAllChecked ==
    exitCode # <<>> =>
        IF urls = <<>>
        THEN /\ exitCode = <<1>>
             /\ calls = <<>>
             /\ browsers = {}
             /\ \E k \in 1..Len(console) : console[k].stream = "stderr"
        ELSE /\ exitCode = <<0>>
             /\ logEnded
             /\ \A i \in 1..Len(urls) :
                   Cardinality({k \in 1..Len(calls) : calls[k] = i}) = 1

\* what holds: the empty list, and the runs in which no launch failed
C3_Observed_UnlessRejected ==
    exitCode # <<>> /\ pc # "rejected" =>
        IF urls = <<>>
        THEN /\ exitCode = <<1>>
             /\ calls = <<>>
             /\ browsers = {}
             /\ \E k \in 1..Len(console) : console[k].stream = "stderr"
        ELSE /\ exitCode = <<0>>
             /\ logEnded
             /\ \A i \in 1..Len(urls) :
                   Cardinality({k \in 1..Len(calls) : calls[k] = i}) = 1

---------------------------------------------------------------------------
(* C10: checkTLS never returns or throws while the browser it launched is   *)
(* open, whatever step failed after the launch, and the log stream is ended *)
(* only once the last browser is closed.                                    *)
C10_BrowserClosedOnEveryPath ==
    /\ pc \in {"launch", "done", "rejected"} => browsers = {}
    /\ logEnded => browsers = {}

\* what holds of check-pqc.js, where every call after the launch is inside
\* the try block; and in both versions nothing is logged after the end
C10_Observed_CheckPqc ==
    /\ [](program = "check-pqc.js" => C10_BrowserClosedOnEveryPath)
    /\ [][logEnded => log' = log]_vars

---------------------------------------------------------------------------
\* the positions of the line feeds of a file content
LineFeeds(content) == {i \in 1..Len(content) : content[i] = "LF"}

\* the n-th line of a content, n = 1 .. number of line feeds + 1: the
\* characters between the line feeds around it, less the carriage return
\* that a line-ending CRLF leaves at its end
LineOf(content, n) ==
    LET lfs   == LineFeeds(content)
        first == IF n = 1 THEN 1 ELSE Kth(lfs, n - 1) + 1
        ended == n <= Cardinality(lfs)
        stop  == IF ended THEN Kth(lfs, n) - 1 ELSE Len(content)
        last  == IF ended /\ stop >= first /\ content[stop] = "CR"
                 THEN stop - 1 ELSE stop
    IN SubSeq(content, first, last)

\* a line with a character that is not white space
HasVisibleCharacter(line) ==
    \E i \in 1..Len(line) : line[i] \notin {" ", "TAB", "CR", "LF"}

\* the lines of a content that are neither empty nor white space only, in
\* file order
UsableLines(content) ==
    SelectSeq([n \in 1..(Cardinality(LineFeeds(content)) + 1) |-> LineOf(content, n)],
              HasVisibleCharacter)

(* C6: when the only argument names an existing file, the URL list is the   *)
(* file's lines (split at LF or CRLF) less the empty and white-space-only   *)
(* ones, in file order and unaltered; otherwise it is the arguments.         *)
C6_UrlListFromFileOrArguments ==
    pc # "start" =>
        IF Len(argv) = 1 /\ argv[1] \in DOMAIN files
        THEN urls = UsableLines(files[argv[1]])
        ELSE urls = argv

\* a file with a CRLF line ending and a white-space-only line gave two URLs
C6_Witness ==
    /\ pc = "launch"
    /\ argv = <<ListFile>>
    /\ files[ListFile] = <<"a","CR","LF"," ","LF","b">>
    /\ urls = << <<"a">>, <<"b">> >>

=============================================================================
